---- MODULE Spec2Model ----
\* A model of http.Request (src/http/request.go): the wrapper around one
\* net/http request that exposes header, cookie, query, form, route-param and
\* body accessors.  Strings are sequences of one-character strings, so that
\* trimming, cutting, canonicalisation and parsing are computed as the code
\* computes them.
EXTENDS Integers, Sequences, FiniteSets, TLC

VARIABLES
    method,        \* request.Method
    requestURI,    \* request.RequestURI ("/?" followed by the raw query)
    contentType,   \* media type mime.ParseMediaType finds in Content-Type
    contentTypeErr, \* the error mime.ParseMediaType returns for it ("" for nil)
    header,        \* request.Header: canonical key |-> first value
    remoteAddr,    \* request.RemoteAddr
    cookies,       \* the cookies the request carries, in header order
    params,        \* Request.Params (httprouter.Params), in route order
    bindings,      \* Request.Bindings
    payload,       \* the bytes the client sent as the body
    streamFails,   \* TRUE when reading the transport stream returns an error
    body,          \* request.Body: "nil", "orig" (transport stream) or "replay"
    origRest,      \* bytes of the transport stream not yet consumed
    replayBuf,     \* unread bytes of the bytes.Buffer installed by readBody
    form,          \* request.Form     ([nil, m])
    postForm,      \* request.PostForm ([nil, m])
    jsonTarget,    \* the target handed to ReadJSON (an int, initially 0)
    formTarget,    \* the target handed to ReadForm/ReadQuery/ReadParams
    ret,           \* what the last operation returned
    hist,          \* the body and form operations performed so far, in order
    origReadAlls,  \* number of ReadAll calls made on the transport stream
    parseCalls,    \* number of calls of request.ParseForm
    parseErr       \* the error the last ParseForm call returned ("" for nil)

vars == <<method, requestURI, contentType, contentTypeErr, header, remoteAddr, cookies, params,
          bindings, payload, streamFails, body, origRest, replayBuf, form,
          postForm, jsonTarget, formTarget, ret, hist, origReadAlls,
          parseCalls, parseErr>>

\* ---------------------------------------------------------------- bounds

MaxRealIP == 2
MaxForwarded == 2
MaxAddr == 2
MaxBody == 2
MaxQuery == 1
MaxOps == 3
MaxCookies == 2

\* ---------------------------------------------------------------- strings

\* All strings over alphabet A of length at most n.
Strs(A, n) == UNION {[1..k -> A] : k \in 0..n}

UpperChars == <<"A","B","C","D","E","F","G","H","I","J","K","L","M","N","O","P","Q","R","S","T","U","V","W","X","Y","Z">>
LowerChars == <<"a","b","c","d","e","f","g","h","i","j","k","l","m","n","o","p","q","r","s","t","u","v","w","x","y","z">>
Digits == {"0","1","2","3","4","5","6","7","8","9"}
HexDigits == Digits \cup {"a","b","c","d","e","f","A","B","C","D","E","F"}

\* ---- bytes
\* A string is a sequence of bytes.  A byte that has a string literal is that
\* one character; a byte that has none (a control byte other than tab, line
\* feed, form feed and carriage return, the grave accent, the bytes from 127)
\* is written as its upper-case escape %XY.

\* The printable ASCII characters from the space (32) to the tilde (126), in
\* code order.
Printable ==
    <<" ", "!", "\"", "#", "$", "%", "&", "'", "(", ")", "*", "+", ",", "-", ".", "/",
      "0", "1", "2", "3", "4", "5", "6", "7", "8", "9", ":", ";", "<", "=", ">", "?",
      "@", "A", "B", "C", "D", "E", "F", "G", "H", "I", "J", "K", "L", "M", "N", "O",
      "P", "Q", "R", "S", "T", "U", "V", "W", "X", "Y", "Z", "[", "\\", "]", "^", "_",
      "%60", "a", "b", "c", "d", "e", "f", "g", "h", "i", "j", "k", "l", "m", "n", "o",
      "p", "q", "r", "s", "t", "u", "v", "w", "x", "y", "z", "{", "|", "}", "~">>

\* The byte with code n (0..255).
ByteOf(n) ==
    IF n \in 32..126 THEN Printable[n - 31]
    ELSE IF n = 9 THEN "\t"
    ELSE IF n = 10 THEN "\n"
    ELSE IF n = 12 THEN "\f"
    ELSE IF n = 13 THEN "\r"
    ELSE LET hex == <<"0","1","2","3","4","5","6","7","8","9","A","B","C","D","E","F">>
         IN  "%" \o hex[(n \div 16) + 1] \o hex[(n % 16) + 1]

\* The UTF-8 encodings of the runes from 128 for which unicode.IsSpace holds:
\* U+0085, U+00A0, U+1680, U+2000 to U+200A, U+2028, U+2029, U+202F, U+205F
\* and U+3000.
SpaceRunes ==
    {<<ByteOf(194), ByteOf(133)>>, <<ByteOf(194), ByteOf(160)>>,
     <<ByteOf(225), ByteOf(154), ByteOf(128)>>,
     <<ByteOf(226), ByteOf(128), ByteOf(168)>>, <<ByteOf(226), ByteOf(128), ByteOf(169)>>,
     <<ByteOf(226), ByteOf(128), ByteOf(175)>>, <<ByteOf(226), ByteOf(129), ByteOf(159)>>,
     <<ByteOf(227), ByteOf(128), ByteOf(128)>>}
    \cup {<<ByteOf(226), ByteOf(128), ByteOf(n)>> : n \in 128..138}

\* unicode.IsSpace on the rune whose UTF-8 encoding is the bytes u.
\* Below 128 these are tab, line feed, vertical tab, form feed, carriage
\* return and space (the asciiSpace table of package strings).
IsSpace(u) == u \in {<<ByteOf(n)>> : n \in {9, 10, 11, 12, 13, 32}} \cup SpaceRunes

\* The number of bytes of the space rune s starts with, 0 when it starts
\* with none (utf8.DecodeRuneInString and unicode.IsSpace).
SpaceAtStart(s) ==
    IF \E k \in 1..3 : k <= Len(s) /\ IsSpace(SubSeq(s, 1, k))
    THEN CHOOSE k \in 1..3 : k <= Len(s) /\ IsSpace(SubSeq(s, 1, k))
    ELSE 0

\* The number of bytes of the space rune s ends with, 0 when it ends with
\* none (utf8.DecodeLastRuneInString and unicode.IsSpace).
SpaceAtEnd(s) ==
    IF \E k \in 1..3 : k <= Len(s) /\ IsSpace(SubSeq(s, Len(s) - k + 1, Len(s)))
    THEN CHOOSE k \in 1..3 : k <= Len(s) /\ IsSpace(SubSeq(s, Len(s) - k + 1, Len(s)))
    ELSE 0

\* strings.TrimLeftFunc(s, unicode.IsSpace): the leading space runes go.
RECURSIVE TrimLeft(_)
TrimLeft(s) ==
    IF SpaceAtStart(s) = 0 THEN s
    ELSE TrimLeft(SubSeq(s, SpaceAtStart(s) + 1, Len(s)))

\* strings.TrimRightFunc(s, unicode.IsSpace): the trailing space runes go.
RECURSIVE TrimRight(_)
TrimRight(s) ==
    IF SpaceAtEnd(s) = 0 THEN s
    ELSE TrimRight(SubSeq(s, 1, Len(s) - SpaceAtEnd(s)))

\* strings.TrimSpace
TrimSpace(s) == TrimRight(TrimLeft(s))

\* strings.IndexByte: 0-based index of the first c in s, -1 when absent.
IndexByte(s, c) ==
    LET at == {i \in 1..Len(s) : s[i] = c}
    IN  IF at = {} THEN -1 ELSE (CHOOSE i \in at : \A j \in at : i <= j) - 1

\* The 0-based index of the last c in s, -1 when absent (net.last).
LastIndexByte(s, c) ==
    LET at == {i \in 1..Len(s) : s[i] = c}
    IN  IF at = {} THEN -1 ELSE (CHOOSE i \in at : \A j \in at : i >= j) - 1

\* Go's s[lo:hi] with 0-based, half-open bounds.
Slice(s, lo, hi) == SubSeq(s, lo + 1, hi)

\* strings.Contains
Contains(s, sub) ==
    \E i \in 0..(Len(s) - Len(sub)) : Slice(s, i, i + Len(sub)) = sub

ToUpper(c) ==
    IF \E i \in 1..26 : LowerChars[i] = c
    THEN UpperChars[CHOOSE i \in 1..26 : LowerChars[i] = c] ELSE c

ToLower(c) ==
    IF \E i \in 1..26 : UpperChars[i] = c
    THEN LowerChars[CHOOSE i \in 1..26 : UpperChars[i] = c] ELSE c

\* A byte allowed in a header field name (an RFC 7230 token character):
\* letters, digits and the marks below, the grave accent (byte 96) among them.
IsTokenChar(c) ==
    \/ \E i \in 1..26 : UpperChars[i] = c \/ LowerChars[i] = c
    \/ c \in Digits
    \/ c \in {"-", "_", "!", "#", "$", "%", "&", "'", "*", "+", ".", "^", "|", "~",
               ByteOf(96)}

\* textproto.CanonicalMIMEHeaderKey, which Header.Get applies to the name it
\* is given: the first letter and every letter after a - is upper-cased, the
\* others lower-cased; a name holding a non-token byte is left as it is.
CanonicalMIMEHeaderKey(s) ==
    IF \E i \in 1..Len(s) : ~IsTokenChar(s[i]) THEN s
    ELSE [i \in 1..Len(s) |->
            IF i = 1 \/ s[i - 1] = "-" THEN ToUpper(s[i]) ELSE ToLower(s[i])]

\* ---------------------------------------------------------------- literals

XMLHttpRequest == <<"X","M","L","H","t","t","p","R","e","q","u","e","s","t">>
AjaxHeaderName == <<"H","T","T","P","_","X","_","R","E","Q","U","E","S","T","E","D","_","W","I","T","H">>
XRequestedWith == <<"X","-","R","e","q","u","e","s","t","e","d","-","W","i","t","h">>
XRealIP == <<"X","-","R","e","a","l","-","I","P">>
XForwardedFor == <<"X","-","F","o","r","w","a","r","d","e","d","-","F","o","r">>
RefererName == <<"R","e","f","e","r","e","r">>
AcceptName == <<"a","c","c","e","p","t">>
ApplicationJSON == <<"a","p","p","l","i","c","a","t","i","o","n","/","j","s","o","n">>
TextHTML == <<"t","e","x","t","/","h","t","m","l">>
TextPlain == <<"t","e","x","t","/","p","l","a","i","n">>
FormURLEncoded == "application/x-www-form-urlencoded"

ErrBodyEmpty == "Body was empty"
ErrStreamRead == "read error"

\* ---------------------------------------------------------------- results

NoValues == [k \in {} |-> <<>>]
NilValues == [nil |-> TRUE, m |-> NoValues]
Values(m) == [nil |-> FALSE, m |-> m]

\* The shape of ret: the operation and what it returned.
Ret(op) == [op |-> op, err |-> "", bytes |-> <<>>, str |-> <<>>, text |-> "",
            bool |-> FALSE, vals |-> NilValues, name |-> <<>>]

\* ---------------------------------------------------------------- headers

\* Header.Get: the first value stored under the canonical form of name.
HeaderGet(h, name) ==
    LET key == CanonicalMIMEHeaderKey(name)
    IN  IF key \in DOMAIN h THEN h[key] ELSE <<>>

\* The header map the server builds from the header lines in the order they
\* arrived: keys are canonicalised, and the first value under a key is the
\* value of the first line with that key.
MkHeader(lines) ==
    [k \in {CanonicalMIMEHeaderKey(lines[i][1]) : i \in 1..Len(lines)} |->
        lines[CHOOSE i \in 1..Len(lines) :
                 /\ CanonicalMIMEHeaderKey(lines[i][1]) = k
                 /\ \A j \in 1..(i - 1) : CanonicalMIMEHeaderKey(lines[j][1]) # k][2]]

\* Request.Header
Header(name) ==
    LET value == HeaderGet(header, name)
    IN  IF value # <<>> THEN TrimSpace(value) ELSE value

\* Request.IsAjax
IsAjax == Header(AjaxHeaderName) = XMLHttpRequest

\* Request.Method, Request.URL, Request.Referer
Method == method
URL == requestURI
Referer == Header(RefererName)

\* Request.HeaderContains and the three content-negotiation checks.
HeaderContains(h, substring) == Contains(Header(h), substring)
WantsJSON == HeaderContains(AcceptName, ApplicationJSON)
WantsHTML == HeaderContains(AcceptName, TextHTML)
WantsPlainText == HeaderContains(AcceptName, TextPlain)

\* ---------------------------------------------------------------- client IP

\* net.SplitHostPort
SplitHostPort(hostport) ==
    LET i == LastIndexByte(hostport, ":")
        n == Len(hostport)
        Fail(e) == [host |-> <<>>, port |-> <<>>, err |-> e]
        Rest(host, j, k) ==
            IF IndexByte(Slice(hostport, j, n), "[") >= 0
            THEN Fail("unexpected [ in address")
            ELSE IF IndexByte(Slice(hostport, k, n), "]") >= 0
            THEN Fail("unexpected ] in address")
            ELSE [host |-> host, port |-> Slice(hostport, i + 1, n), err |-> ""]
    IN  IF i < 0 THEN Fail("missing port in address")
        ELSE IF hostport[1] = "["
        THEN LET end == IndexByte(hostport, "]")
             IN  IF end < 0 THEN Fail("missing ] in address")
                 ELSE IF end + 1 = n THEN Fail("missing port in address")
                 ELSE IF end + 1 = i THEN Rest(Slice(hostport, 1, end), 1, end + 1)
                 ELSE IF hostport[end + 2] = ":"
                 THEN Fail("too many colons in address")
                 ELSE Fail("missing port in address")
        ELSE LET host == Slice(hostport, 0, i)
             IN  IF IndexByte(host, ":") >= 0
                 THEN Fail("too many colons in address")
                 ELSE Rest(host, 0, 0)

\* The left-most entry of X-Forwarded-For, trimmed (request.go lines 78-83).
ForwardedFirst ==
    LET realIP == Header(XForwardedFor)
        idx == IndexByte(realIP, ",")
    IN  TrimSpace(IF idx >= 0 THEN Slice(realIP, 0, idx) ELSE realIP)

\* The address taken from the connection (request.go lines 89-99).
RemoteIP ==
    LET addr == TrimSpace(remoteAddr)
    IN  IF Len(addr) = 0 THEN <<>>
        ELSE LET r == SplitHostPort(addr)
             IN  IF r.err = "" THEN r.host ELSE addr

\* Request.IP with the two header checks in the wrong order.
IPForwardedFirst ==
    IF ForwardedFirst # <<>> THEN ForwardedFirst
    ELSE IF Header(XRealIP) # <<>> THEN Header(XRealIP)
    ELSE RemoteIP

\* Request.IP
IP ==
    IF Header(XRealIP) # <<>> THEN Header(XRealIP)
    ELSE IF ForwardedFirst # <<>> THEN ForwardedFirst
    ELSE RemoteIP

\* ---------------------------------------------------------------- cookies

\* net/http Request.Cookie: the first cookie of that name, or ErrNoCookie.
RequestCookie(name) ==
    LET at == {i \in 1..Len(cookies) : cookies[i].Name = name}
    IN  IF at = {} THEN [found |-> FALSE, err |-> "http: named cookie not present",
                         cookie |-> [Name |-> <<>>, Value |-> <<>>]]
        ELSE [found |-> TRUE, err |-> "",
              cookie |-> cookies[CHOOSE i \in at : \A j \in at : i <= j]]

\* net/http isCookieNameValid: a non-empty name of token bytes.
isCookieNameValid(name) ==
    name # <<>> /\ \A i \in 1..Len(name) : IsTokenChar(name[i])

\* net/http validCookieValueByte: 0x20 <= b < 0x7f, none of " ; and \.
validCookieValueByte(b) ==
    b \in {ByteOf(n) : n \in 32..126} \ {"\"", ";", "\\"}

\* net/http sanitizeCookieValue: the value with its invalid bytes dropped, in
\* quotes when it holds a space or a comma.
sanitizeCookieValue(v) ==
    LET w == SelectSeq(v, validCookieValueByte)
    IN  IF \E i \in 1..Len(w) : w[i] \in {" ", ","}
        THEN <<"\"">> \o w \o <<"\"">> ELSE w

\* net/http (*Cookie).String for a cookie read from a request (no attributes):
\* "" for the nil cookie and for an invalid name, else name=value with the
\* value sanitized.
CookieString(c) ==
    IF ~c.found \/ ~isCookieNameValid(c.cookie.Name) THEN <<>>
    ELSE c.cookie.Name \o <<"=">> \o sanitizeCookieValue(c.cookie.Value)

\* Request.Cookie with the condition the other way round (err == nil).
CookieWhenFound(name) ==
    LET c == RequestCookie(name)
    IN  IF c.err = "" THEN CookieString(c) ELSE <<>>

\* Request.Cookie
Cookie(name) ==
    LET c == RequestCookie(name)
    IN  IF c.err # "" THEN CookieString(c) ELSE <<>>

\* Request.HasCookie
HasCookie(name) == RequestCookie(name).err = ""

\* ---------------------------------------------------------------- values

\* url.Values.Add
AddValue(m, k, v) ==
    [x \in DOMAIN m \cup {k} |->
        IF x = k THEN (IF k \in DOMAIN m THEN Append(m[k], v) ELSE <<v>>)
        ELSE m[x]]

\* net/http copyValues: every value of src is appended under its key in dst.
CopyValues(dst, src) ==
    [x \in DOMAIN dst \cup DOMAIN src |->
        (IF x \in DOMAIN dst THEN dst[x] ELSE <<>>) \o
        (IF x \in DOMAIN src THEN src[x] ELSE <<>>)]

\* The value of a hexadecimal digit (url.unhex).
Unhex(c) ==
    IF c \in Digits THEN CHOOSE d \in 0..9 : ToString(d) = c
    ELSE 9 + (CHOOSE i \in 1..6 : UpperChars[i] = ToUpper(c))

\* The byte a %XY escape stands for: unhex(X)<<4 | unhex(Y).
HexByte(a, b) == ByteOf(16 * Unhex(a) + Unhex(b))

RECURSIVE Unescaped(_)
Unescaped(s) ==
    IF s = <<>> THEN <<>>
    ELSE IF Head(s) = "%" THEN <<HexByte(s[2], s[3])>> \o Unescaped(SubSeq(s, 4, Len(s)))
    ELSE IF Head(s) = "+" THEN <<" ">> \o Unescaped(Tail(s))
    ELSE <<Head(s)>> \o Unescaped(Tail(s))

\* url.QueryUnescape: a % not followed by two hex digits is an error.
QueryUnescape(s) ==
    IF \E i \in 1..Len(s) :
          /\ s[i] = "%"
          /\ (i + 2 > Len(s) \/ s[i + 1] \notin HexDigits \/ s[i + 2] \notin HexDigits)
    THEN [s |-> <<>>, err |-> "invalid URL escape"]
    ELSE [s |-> Unescaped(s), err |-> ""]

\* The k-th smallest element of a set of integers.
Nth(S, k) == CHOOSE a \in S : Cardinality({b \in S : b < a}) = k - 1

\* The end of the segment that starts at position a, given the positions of
\* the separators.
SegmentEnd(n, seps, a) ==
    IF {i \in seps : i >= a} = {} THEN n ELSE Nth({i \in seps : i >= a}, 1) - 1

\* The segments of query cut at the separator positions seps, in order.
Segments(query, seps, starts) ==
    [k \in 1..Cardinality(starts) |->
        SubSeq(query, Nth(starts, k), SegmentEnd(Len(query), seps, Nth(starts, k)))]

\* The segments of query between its & separators (strings.Cut in the loop
\* of url.parseQuery).
Pairs(query) ==
    Segments(query, {i \in 1..Len(query) : query[i] = "&"},
             {1} \cup {i + 1 : i \in {j \in 1..Len(query) : query[j] = "&"}})

\* The loop body of url.parseQuery on one segment, its key and value already
\* unescaped: what it adds and the error it meets.
PairResult(pair, key, value) ==
    LET semi == IndexByte(pair, ";") >= 0
        err == IF semi THEN "invalid semicolon separator in query"
               ELSE IF pair = <<>> THEN ""
               ELSE IF key.err # "" THEN key.err
               ELSE value.err
    IN  [adds |-> ~semi /\ pair # <<>> /\ err = "", semi |-> semi,
         key |-> key.s, value |-> value.s, err |-> err]

\* The key and value of a segment are cut at its first = and unescaped.
PairCut(pair, eq) ==
    PairResult(pair,
               QueryUnescape(IF eq < 0 THEN pair ELSE Slice(pair, 0, eq)),
               QueryUnescape(IF eq < 0 THEN <<>> ELSE Slice(pair, eq + 1, Len(pair))))

ParsePair(pair) == PairCut(pair, IndexByte(pair, "="))

\* The values added under key, in the order of their segments.
ValuesOf(ps, at) == [j \in 1..Cardinality(at) |-> ps[Nth(at, j)].value]

\* What url.parseQuery leaves after the loop: the well-formed pairs added in
\* order; the error is the first one met, except that a semicolon error
\* replaces any error met before it.
QueryResult(ps) ==
    [vals |-> [key \in {ps[k].key : k \in {j \in DOMAIN ps : ps[j].adds}} |->
                 ValuesOf(ps, {k \in DOMAIN ps : ps[k].adds /\ ps[k].key = key})],
     err |-> IF \E k \in DOMAIN ps : ps[k].semi
             THEN "invalid semicolon separator in query"
             ELSE IF \A k \in DOMAIN ps : ps[k].err = "" THEN ""
             ELSE ps[Nth({k \in DOMAIN ps : ps[k].err # ""}, 1)].err]

ParsedPairs(segs) == [k \in DOMAIN segs |-> ParsePair(segs[k])]

\* url.ParseQuery
ParseQuery(query) == QueryResult(ParsedPairs(Pairs(query)))

\* URL.RawQuery: what follows the first ? of the request URI.
RawQuery ==
    LET q == IndexByte(requestURI, "?")
    IN  IF q < 0 THEN <<>> ELSE Slice(requestURI, q + 1, Len(requestURI))

\* Request.Query (URL.Query drops the parse error).
Query == ParseQuery(RawQuery).vals

\* httprouter Params.ByName: the value of the first param of that key, or "".
ByName(name) ==
    LET at == {i \in 1..Len(params) : params[i].Key = name}
    IN  IF at = {} THEN <<>>
        ELSE params[CHOOSE i \in at : \A j \in at : i <= j].Value

\* Request.Param
Param(name) == ByName(name)

RECURSIVE AddParams(_, _)
AddParams(values, ps) ==
    IF ps = <<>> THEN values
    ELSE AddParams(AddValue(values, Head(ps).Key, Head(ps).Value), Tail(ps))

\* Request.ParamValues
ParamValues == AddParams(NoValues, params)

\* The key of the one field (a []string) of the decode target.
TargetKey == <<"1">>

\* The elements of s that are not the empty string, in order.
RECURSIVE NonEmpty(_)
NonEmpty(s) ==
    IF s = <<>> THEN <<>>
    ELSE IF Head(s) = <<>> THEN NonEmpty(Tail(s))
    ELSE <<Head(s)>> \o NonEmpty(Tail(s))

\* Request.decodeValues with gorilla/schema (a new decoder, default options):
\* the target field is set to the values stored under its key, the empty
\* strings among them skipped; every other key is reported as an invalid
\* path; a nil or empty mapping leaves the target as it is.
decodeValues(target, values) ==
    [target |-> IF ~values.nil /\ TargetKey \in DOMAIN values.m
                THEN NonEmpty(values.m[TargetKey]) ELSE target,
     err |-> IF ~values.nil /\ DOMAIN values.m \ {TargetKey} # {}
             THEN "schema: invalid path" ELSE ""]

\* ---------------------------------------------------------------- body

\* ioutil.ReadAll(request.Body) for a non-nil Body: the transport stream gives
\* its unread bytes, or, when it fails, hands over at most one more byte and
\* the error; the replay buffer gives its unread bytes.
ReadAllBody ==
    IF body = "orig"
    THEN IF streamFails
         THEN [bytes |-> IF origRest = <<>> THEN <<>> ELSE <<Head(origRest)>>,
               err |-> ErrStreamRead,
               origRest |-> IF origRest = <<>> THEN <<>> ELSE Tail(origRest),
               replayBuf |-> replayBuf, reads |-> 1]
         ELSE [bytes |-> origRest, err |-> "", origRest |-> <<>>,
               replayBuf |-> replayBuf, reads |-> 1]
    ELSE [bytes |-> replayBuf, err |-> "", origRest |-> origRest,
          replayBuf |-> <<>>, reads |-> 0]

\* Request.readBody without line 234: the bytes are returned but no replay
\* buffer is installed.
readBodyNoReplay ==
    IF body = "nil"
    THEN [bytes |-> <<>>, err |-> ErrBodyEmpty, body |-> body,
          origRest |-> origRest, replayBuf |-> replayBuf, reads |-> 0]
    ELSE LET r == ReadAllBody
         IN  [bytes |-> IF r.err # "" THEN <<>> ELSE r.bytes, err |-> r.err,
              body |-> body, origRest |-> r.origRest,
              replayBuf |-> r.replayBuf, reads |-> r.reads]

\* Request.readBody installing the buffer before the error check: a failed
\* read replaces Body by a buffer of the bytes read so far.
readBodyInstallFirst ==
    IF body = "nil"
    THEN [bytes |-> <<>>, err |-> ErrBodyEmpty, body |-> body,
          origRest |-> origRest, replayBuf |-> replayBuf, reads |-> 0]
    ELSE LET r == ReadAllBody
         IN  [bytes |-> IF r.err # "" THEN <<>> ELSE r.bytes, err |-> r.err,
              body |-> "replay", origRest |-> r.origRest,
              replayBuf |-> r.bytes, reads |-> r.reads]

\* Request.readBody: the returned bytes, the error, and the request's body
\* state afterwards.
readBody ==
    IF body = "nil"
    THEN [bytes |-> <<>>, err |-> ErrBodyEmpty, body |-> body,
          origRest |-> origRest, replayBuf |-> replayBuf, reads |-> 0]
    ELSE LET r == ReadAllBody
         IN  IF r.err # ""
             THEN [bytes |-> <<>>, err |-> r.err, body |-> body,
                   origRest |-> r.origRest, replayBuf |-> r.replayBuf,
                   reads |-> r.reads]
             ELSE [bytes |-> r.bytes, err |-> "", body |-> "replay",
                   origRest |-> r.origRest, replayBuf |-> r.bytes,
                   reads |-> r.reads]

\* ---------------------------------------------------------------- json


\* encoding/json isSpace
IsJSONSpace(c) == c \in {" ", "\t", "\r", "\n"}

\* The scanner of encoding/json: the step function to apply to the next byte,
\* the stack of enclosing objects and arrays, whether a top-level value has
\* ended, and the error met.
ScanReset == [step |-> "stateBeginValue", parseState |-> <<>>, endTop |-> FALSE, err |-> ""]

ScanTo(sc, step) == [sc EXCEPT !.step = step]
ScanError(sc) == [sc EXCEPT !.step = "stateError", !.err = "invalid character"]
\* scanner.pushParseState: nesting beyond maxNestingDepth is an error.
maxNestingDepth == 10000
ScanPush(sc, ps, step) ==
    IF Len(sc.parseState) + 1 <= maxNestingDepth
    THEN ScanTo([sc EXCEPT !.parseState = Append(@, ps)], step)
    ELSE ScanError([sc EXCEPT !.parseState = Append(@, ps)])
ScanSetTop(sc, ps, step) ==
    [sc EXCEPT !.step = step, !.parseState = [@ EXCEPT ![Len(@)] = ps]]

popParseState(sc) ==
    IF Len(sc.parseState) = 1
    THEN [sc EXCEPT !.parseState = <<>>, !.step = "stateEndTop", !.endTop = TRUE]
    ELSE [sc EXCEPT !.parseState = SubSeq(@, 1, Len(@) - 1), !.step = "stateEndValue"]

stateEndTop(sc, c) == IF IsJSONSpace(c) THEN sc ELSE ScanError(sc)

stateEndValue(sc, c) ==
    IF sc.parseState = <<>>
    THEN stateEndTop([sc EXCEPT !.step = "stateEndTop", !.endTop = TRUE], c)
    ELSE IF IsJSONSpace(c) THEN ScanTo(sc, "stateEndValue")
    ELSE IF sc.parseState[Len(sc.parseState)] = "parseObjectKey"
    THEN IF c = ":" THEN ScanSetTop(sc, "parseObjectValue", "stateBeginValue")
         ELSE ScanError(sc)
    ELSE IF sc.parseState[Len(sc.parseState)] = "parseObjectValue"
    THEN IF c = "," THEN ScanSetTop(sc, "parseObjectKey", "stateBeginString")
         ELSE IF c = "}" THEN popParseState(sc)
         ELSE ScanError(sc)
    ELSE IF c = "," THEN ScanTo(sc, "stateBeginValue")
         ELSE IF c = "]" THEN popParseState(sc)
         ELSE ScanError(sc)

stateBeginValue(sc, c) ==
    IF IsJSONSpace(c) THEN sc
    ELSE IF c = "{" THEN ScanPush(sc, "parseObjectKey", "stateBeginStringOrEmpty")
    ELSE IF c = "[" THEN ScanPush(sc, "parseArrayValue", "stateBeginValueOrEmpty")
    ELSE IF c = "\"" THEN ScanTo(sc, "stateInString")
    ELSE IF c = "-" THEN ScanTo(sc, "stateNeg")
    ELSE IF c = "0" THEN ScanTo(sc, "state0")
    ELSE IF c = "t" THEN ScanTo(sc, "stateT")
    ELSE IF c = "f" THEN ScanTo(sc, "stateF")
    ELSE IF c = "n" THEN ScanTo(sc, "stateN")
    ELSE IF c \in Digits THEN ScanTo(sc, "state1")
    ELSE ScanError(sc)

stateBeginValueOrEmpty(sc, c) ==
    IF IsJSONSpace(c) THEN sc
    ELSE IF c = "]" THEN stateEndValue(sc, c)
    ELSE stateBeginValue(sc, c)

stateBeginString(sc, c) ==
    IF IsJSONSpace(c) THEN sc
    ELSE IF c = "\"" THEN ScanTo(sc, "stateInString")
    ELSE ScanError(sc)

stateBeginStringOrEmpty(sc, c) ==
    IF IsJSONSpace(c) THEN sc
    ELSE IF c = "}" THEN stateEndValue(ScanSetTop(sc, "parseObjectValue", sc.step), c)
    ELSE stateBeginString(sc, c)

stateInString(sc, c) ==
    IF c = "\"" THEN ScanTo(sc, "stateEndValue")
    ELSE IF c = "\\" THEN ScanTo(sc, "stateInStringEsc")
    ELSE IF c \in {ByteOf(n) : n \in 0..31} THEN ScanError(sc)
    ELSE sc

stateInStringEsc(sc, c) ==
    IF c \in {"b", "f", "n", "r", "t", "\\", "/", "\""} THEN ScanTo(sc, "stateInString")
    ELSE IF c = "u" THEN ScanTo(sc, "stateInStringEscU")
    ELSE ScanError(sc)

\* stateInStringEscU, ...U1, ...U12, ...U123: four hexadecimal digits.
stateInStringEscHex(sc, c, next) ==
    IF c \in HexDigits THEN ScanTo(sc, next) ELSE ScanError(sc)

state0(sc, c) ==
    IF c = "." THEN ScanTo(sc, "stateDot")
    ELSE IF c \in {"e", "E"} THEN ScanTo(sc, "stateE")
    ELSE stateEndValue(sc, c)

state1(sc, c) == IF c \in Digits THEN ScanTo(sc, "state1") ELSE state0(sc, c)

stateNeg(sc, c) ==
    IF c = "0" THEN ScanTo(sc, "state0")
    ELSE IF c \in Digits THEN ScanTo(sc, "state1")
    ELSE ScanError(sc)

stateDot(sc, c) == IF c \in Digits THEN ScanTo(sc, "stateDot0") ELSE ScanError(sc)

stateDot0(sc, c) ==
    IF c \in Digits THEN sc
    ELSE IF c \in {"e", "E"} THEN ScanTo(sc, "stateE")
    ELSE stateEndValue(sc, c)

stateESign(sc, c) == IF c \in Digits THEN ScanTo(sc, "stateE0") ELSE ScanError(sc)

stateE(sc, c) == IF c \in {"+", "-"} THEN ScanTo(sc, "stateESign") ELSE stateESign(sc, c)

stateE0(sc, c) == IF c \in Digits THEN sc ELSE stateEndValue(sc, c)

\* stateT ... stateNul: the next letter of true, false or null.
stateLetter(sc, c, letter, next) ==
    IF c = letter THEN ScanTo(sc, next) ELSE ScanError(sc)

\* scanner.step: one byte handed to the current step function.
ScanStep(sc, c) ==
    CASE sc.step = "stateBeginValue" -> stateBeginValue(sc, c)
      [] sc.step = "stateBeginValueOrEmpty" -> stateBeginValueOrEmpty(sc, c)
      [] sc.step = "stateBeginString" -> stateBeginString(sc, c)
      [] sc.step = "stateBeginStringOrEmpty" -> stateBeginStringOrEmpty(sc, c)
      [] sc.step = "stateEndValue" -> stateEndValue(sc, c)
      [] sc.step = "stateEndTop" -> stateEndTop(sc, c)
      [] sc.step = "stateInString" -> stateInString(sc, c)
      [] sc.step = "stateInStringEsc" -> stateInStringEsc(sc, c)
      [] sc.step = "stateInStringEscU" -> stateInStringEscHex(sc, c, "stateInStringEscU1")
      [] sc.step = "stateInStringEscU1" -> stateInStringEscHex(sc, c, "stateInStringEscU12")
      [] sc.step = "stateInStringEscU12" -> stateInStringEscHex(sc, c, "stateInStringEscU123")
      [] sc.step = "stateInStringEscU123" -> stateInStringEscHex(sc, c, "stateInString")
      [] sc.step = "stateNeg" -> stateNeg(sc, c)
      [] sc.step = "state1" -> state1(sc, c)
      [] sc.step = "state0" -> state0(sc, c)
      [] sc.step = "stateDot" -> stateDot(sc, c)
      [] sc.step = "stateDot0" -> stateDot0(sc, c)
      [] sc.step = "stateE" -> stateE(sc, c)
      [] sc.step = "stateESign" -> stateESign(sc, c)
      [] sc.step = "stateE0" -> stateE0(sc, c)
      [] sc.step = "stateT" -> stateLetter(sc, c, "r", "stateTr")
      [] sc.step = "stateTr" -> stateLetter(sc, c, "u", "stateTru")
      [] sc.step = "stateTru" -> stateLetter(sc, c, "e", "stateEndValue")
      [] sc.step = "stateF" -> stateLetter(sc, c, "a", "stateFa")
      [] sc.step = "stateFa" -> stateLetter(sc, c, "l", "stateFal")
      [] sc.step = "stateFal" -> stateLetter(sc, c, "s", "stateFals")
      [] sc.step = "stateFals" -> stateLetter(sc, c, "e", "stateEndValue")
      [] sc.step = "stateN" -> stateLetter(sc, c, "u", "stateNu")
      [] sc.step = "stateNu" -> stateLetter(sc, c, "l", "stateNul")
      [] sc.step = "stateNul" -> stateLetter(sc, c, "l", "stateEndValue")
      [] OTHER -> sc

\* The loop of checkValid: the bytes are stepped through until one is an
\* error.
RECURSIVE ScanAll(_, _)
ScanAll(sc, data) ==
    IF data = <<>> \/ sc.err # "" THEN sc
    ELSE ScanAll(ScanStep(sc, Head(data)), Tail(data))

\* scanner.eof
ScanEOF(sc) ==
    IF sc.err # "" THEN sc.err
    ELSE IF sc.endTop THEN ""
    ELSE LET last == ScanStep(sc, " ")
         IN  IF last.endTop THEN ""
             ELSE IF last.err # "" THEN last.err
             ELSE "unexpected end of JSON input"

\* encoding/json checkValid: "" when data is one well-formed JSON value.
checkValid(data) == ScanEOF(ScanAll(ScanReset, data))

\* The value of a well-formed document: data without the JSON white space
\* around it.
JSONValue(data, keep) ==
    SubSeq(data, CHOOSE i \in keep : \A j \in keep : i <= j,
                 CHOOSE i \in keep : \A j \in keep : i >= j)

RECURSIVE Decimal(_)
Decimal(ds) ==
    IF ds = <<>> THEN 0
    ELSE 10 * Decimal(SubSeq(ds, 1, Len(ds) - 1)) + Unhex(ds[Len(ds)])

MaxInt64 == <<"9","2","2","3","3","7","2","0","3","6","8","5","4","7","7","5","8","0","7">>
MinInt64 == <<"9","2","2","3","3","7","2","0","3","6","8","5","4","7","7","5","8","0","8">>

\* Whether the digits ds, without leading zeros, are at most the digits max.
AtMost(ds, max) ==
    \/ Len(ds) < Len(max)
    \/ /\ Len(ds) = Len(max)
       /\ \/ ds = max
          \/ \E i \in 1..Len(ds) :
                /\ SubSeq(ds, 1, i - 1) = SubSeq(max, 1, i - 1)
                /\ Unhex(ds[i]) < Unhex(max[i])

\* strconv.ParseInt(item, 10, 64) on a JSON number literal: an int64 for
\* digits with an optional sign, an error for a fraction, an exponent or a
\* value out of range.
ParseInt(item) ==
    IF Head(item) = "-"
    THEN IF (\A i \in 2..Len(item) : item[i] \in Digits) /\ AtMost(Tail(item), MinInt64)
         THEN [ok |-> TRUE, val |-> 0 - Decimal(Tail(item))]
         ELSE [ok |-> FALSE, val |-> 0]
    ELSE IF (\A i \in 1..Len(item) : item[i] \in Digits) /\ AtMost(item, MaxInt64)
         THEN [ok |-> TRUE, val |-> Decimal(item)]
         ELSE [ok |-> FALSE, val |-> 0]

\* decodeState.value for an int target on the well-formed value item: null
\* leaves the target, an integer in range is stored, and a boolean, a string,
\* an array, an object or another number is a type error.
DecodeInt(item) ==
    IF Head(item) = "n" THEN [ok |-> FALSE, val |-> 0, err |-> ""]
    ELSE IF Head(item) \in {"t", "f", "\"", "[", "{"} \/ ~ParseInt(item).ok
    THEN [ok |-> FALSE, val |-> 0, err |-> "cannot unmarshal"]
    ELSE [ok |-> TRUE, val |-> ParseInt(item).val, err |-> ""]

JSONChecked(data, err) ==
    IF err # "" THEN [ok |-> FALSE, val |-> 0, err |-> err]
    ELSE DecodeInt(JSONValue(data, {i \in 1..Len(data) : ~IsJSONSpace(data[i])}))

\* json.Unmarshal into a pointer to an int (ok: the target was written): the
\* input is checked first, so a malformed document leaves the target
\* untouched.
JSONUnmarshal(data) == JSONChecked(data, checkValid(data))

\* ---------------------------------------------------------------- form

\* The most bytes of a form body net/http parses (10 MB).
maxFormSize == 10485760


\* ioutil.ReadAll(io.LimitReader(request.Body, n)) for a non-nil Body and
\* limit > 0: as ReadAllBody, but at most limit bytes are taken from the body.
ReadLimited(limit) ==
    LET have == IF body = "orig" THEN Len(origRest) ELSE Len(replayBuf)
        n == IF limit < have THEN limit ELSE have
    IN
    IF body = "orig"
    THEN IF streamFails
         THEN [bytes |-> IF origRest = <<>> THEN <<>> ELSE <<Head(origRest)>>,
               err |-> ErrStreamRead,
               origRest |-> IF origRest = <<>> THEN <<>> ELSE Tail(origRest),
               replayBuf |-> replayBuf, reads |-> 1]
         ELSE [bytes |-> SubSeq(origRest, 1, n), err |-> "",
               origRest |-> SubSeq(origRest, n + 1, Len(origRest)),
               replayBuf |-> replayBuf, reads |-> 1]
    ELSE [bytes |-> SubSeq(replayBuf, 1, n), err |-> "", origRest |-> origRest,
          replayBuf |-> SubSeq(replayBuf, n + 1, Len(replayBuf)), reads |-> 0]

\* parsePostForm after the body was read with result r and its bytes parsed
\* with result q: the error is the media type error if there is one, else
\* the read error or the parse error; a body beyond maxFormSize is an error.
PostFormParsed(r, q) ==
    IF r.err # ""
    THEN [vs |-> NilValues, err |-> IF contentTypeErr # "" THEN contentTypeErr ELSE r.err,
          origRest |-> r.origRest, replayBuf |-> r.replayBuf, reads |-> r.reads]
    ELSE IF Len(r.bytes) > maxFormSize
    THEN [vs |-> NilValues, err |-> "http: POST too large",
          origRest |-> r.origRest, replayBuf |-> r.replayBuf, reads |-> r.reads]
    ELSE [vs |-> Values(q.vals), err |-> IF contentTypeErr # "" THEN contentTypeErr ELSE q.err,
          origRest |-> r.origRest, replayBuf |-> r.replayBuf, reads |-> r.reads]

PostFormRead(r) == PostFormParsed(r, ParseQuery(r.bytes))

\* net/http parsePostForm: the body of a request whose media type is the
\* form encoding is read, up to one byte beyond maxFormSize, and parsed; with
\* another media type the body is left and the media type error returned; a
\* request without a body gives no values and no error.
parsePostForm ==
    IF body = "nil"
    THEN [vs |-> NilValues, err |-> "", origRest |-> origRest,
          replayBuf |-> replayBuf, reads |-> 0]
    ELSE IF contentType = FormURLEncoded THEN PostFormRead(ReadLimited(maxFormSize + 1))
    ELSE [vs |-> NilValues, err |-> contentTypeErr, origRest |-> origRest,
          replayBuf |-> replayBuf, reads |-> 0]

\* The body of net/http Request.ParseForm, given whether the body is to be
\* read, the result pp of parsePostForm and the result q of parsing the URL
\* query.  Form is set even when an error is returned.
ParseFormWith(readsBody, pp, q) ==
    LET pf == IF ~postForm.nil THEN postForm
              ELSE IF readsBody /\ ~pp.vs.nil THEN pp.vs
              ELSE Values(NoValues)
    IN  [postForm |-> pf,
         form |-> IF ~form.nil THEN form
                  ELSE IF DOMAIN pf.m # {} THEN Values(CopyValues(pf.m, q.vals))
                  ELSE Values(q.vals),
         err |-> IF readsBody /\ pp.err # "" THEN pp.err
                 ELSE IF form.nil THEN q.err ELSE "",
         origRest |-> IF readsBody THEN pp.origRest ELSE origRest,
         replayBuf |-> IF readsBody THEN pp.replayBuf ELSE replayBuf,
         reads |-> IF readsBody THEN pp.reads ELSE 0,
         calls |-> 1]

\* net/http Request.ParseForm: PostForm from the body of a POST, PUT or PATCH,
\* Form from PostForm and the URL query.
ParseForm ==
    ParseFormWith(postForm.nil /\ method \in {"POST", "PUT", "PATCH"},
                  parsePostForm, ParseQuery(RawQuery))

\* Request.parseForm without the Form == nil guard: parses on every call.
parseFormAlways == ParseForm

\* Request.parseForm
parseForm ==
    IF form.nil THEN ParseForm
    ELSE [postForm |-> postForm, form |-> form, err |-> "",
          origRest |-> origRest, replayBuf |-> replayBuf, reads |-> 0,
          calls |-> 0]

\* Request.FormValues after parseForm returned p: nil on error, else Form.
FormValuesOf(p) == [vals |-> IF p.err # "" THEN NilValues ELSE p.form, p |-> p]

\* Request.FormValues: the mapping returned, with the state parseForm leaves.
FormValues == FormValuesOf(parseForm)

\* ---------------------------------------------------------------- operations

request == <<method, requestURI, contentType, contentTypeErr, header, remoteAddr,
             cookies>>
bodyVars == <<payload, streamFails, body, origRest, replayBuf, origReadAlls>>
formVars == <<form, postForm, parseCalls, parseErr>>

\* The state the Request owns: the underlying request with its body stream
\* and parsed form, the route params and the bindings.
reqState == <<method, requestURI, contentType, contentTypeErr, header, remoteAddr, cookies,
              params, bindings, body, origRest, replayBuf, form, postForm>>

HeaderNames == {AjaxHeaderName, XRequestedWith, XRealIP, XForwardedFor,
                RefererName, AcceptName}
CookieNames == {<<"a">>, <<"b">>, <<"c">>}
ParamNames == {<<"1">>, <<"i", "d">>}

\* An accessor that returns r and writes nothing.
Returns(r) ==
    /\ ret' = r
    /\ UNCHANGED <<request, params, bindings, bodyVars, formVars, jsonTarget,
                   formTarget, hist>>

CallHeader ==
    \E name \in HeaderNames :
        Returns([Ret("Header") EXCEPT !.name = name, !.str = Header(name)])

CallIsAjax == Returns([Ret("IsAjax") EXCEPT !.bool = IsAjax])

CallMethod == Returns([Ret("Method") EXCEPT !.text = Method])

CallURL == Returns([Ret("URL") EXCEPT !.str = URL])

CallReferer == Returns([Ret("Referer") EXCEPT !.str = Referer])

CallIP == Returns([Ret("IP") EXCEPT !.str = IP])

CallWantsJSON == Returns([Ret("WantsJSON") EXCEPT !.bool = WantsJSON])

CallWantsHTML == Returns([Ret("WantsHTML") EXCEPT !.bool = WantsHTML])

CallWantsPlainText == Returns([Ret("WantsPlainText") EXCEPT !.bool = WantsPlainText])

CallCookie ==
    \E name \in CookieNames :
        Returns([Ret("Cookie") EXCEPT !.name = name, !.str = Cookie(name)])

CallHasCookie ==
    \E name \in CookieNames :
        Returns([Ret("HasCookie") EXCEPT !.name = name, !.bool = HasCookie(name)])

CallParam ==
    \E name \in ParamNames :
        Returns([Ret("Param") EXCEPT !.name = name, !.str = Param(name)])

\* Request.Query written with the form cache: it parses the form and returns
\* request.Form.
QueryViaForm(fv) ==
        /\ form' = fv.p.form
        /\ postForm' = fv.p.postForm
        /\ origRest' = fv.p.origRest
        /\ replayBuf' = fv.p.replayBuf
        /\ origReadAlls' = origReadAlls + fv.p.reads
        /\ parseCalls' = parseCalls + fv.p.calls
        /\ parseErr' = IF fv.p.calls > 0 THEN fv.p.err ELSE parseErr
        /\ ret' = [Ret("Query") EXCEPT !.vals = fv.vals]
        /\ UNCHANGED <<request, params, bindings, payload, streamFails, body,
                       jsonTarget, formTarget, hist>>

CallQueryViaForm == QueryViaForm(FormValues)

CallQuery == Returns([Ret("Query") EXCEPT !.vals = Values(Query)])

CallParamValues == Returns([Ret("ParamValues") EXCEPT !.vals = Values(ParamValues)])

\* Request.ReadQuery and Request.ReadParams write the caller's target only.
Decoded(op, values, d) ==
    /\ formTarget' = d.target
    /\ ret' = [Ret(op) EXCEPT !.err = d.err, !.vals = values]
    /\ UNCHANGED <<request, params, bindings, bodyVars, formVars,
                   jsonTarget, hist>>

Decodes(op, values) == Decoded(op, values, decodeValues(formTarget, values))

CallReadQuery == Decodes("ReadQuery", Values(Query))

CallReadParams == Decodes("ReadParams", Values(ParamValues))

\* What FormValues and ReadForm do to the request: parseForm's effects.
FormStep(fv) ==
    /\ form' = fv.p.form
    /\ postForm' = fv.p.postForm
    /\ origRest' = fv.p.origRest
    /\ replayBuf' = fv.p.replayBuf
    /\ origReadAlls' = origReadAlls + fv.p.reads
    /\ parseCalls' = parseCalls + fv.p.calls
    /\ parseErr' = IF fv.p.calls > 0 THEN fv.p.err ELSE parseErr
    /\ UNCHANGED <<request, params, bindings, payload, streamFails, body,
                   jsonTarget>>

FormValuesStep(fv) ==
    /\ FormStep(fv)
    /\ ret' = [Ret("FormValues") EXCEPT !.vals = fv.vals]
    /\ hist' = Append(hist, "FormValues")
    /\ UNCHANGED formTarget

CallFormValues == Len(hist) < MaxOps /\ FormValuesStep(FormValues)

ReadFormDecoded(fv, d) ==
    /\ FormStep(fv)
    /\ formTarget' = d.target
    /\ ret' = [Ret("ReadForm") EXCEPT !.err = d.err, !.vals = fv.vals]
    /\ hist' = Append(hist, "ReadForm")

ReadFormStep(fv) == ReadFormDecoded(fv, decodeValues(formTarget, fv.vals))

CallReadForm == Len(hist) < MaxOps /\ ReadFormStep(FormValues)

ReadJSONDecoded(rb, dec) ==
    /\ body' = rb.body
    /\ origRest' = rb.origRest
    /\ replayBuf' = rb.replayBuf
    /\ origReadAlls' = origReadAlls + rb.reads
    /\ jsonTarget' = IF rb.err = "" /\ dec.ok THEN dec.val ELSE jsonTarget
    /\ ret' = [Ret("ReadJSON") EXCEPT
                 !.err = IF rb.err # "" THEN rb.err ELSE dec.err,
                 !.bytes = rb.bytes]

ReadJSONStep(rb) == ReadJSONDecoded(rb, JSONUnmarshal(rb.bytes))

CallReadJSON ==
    /\ Len(hist) < MaxOps
    /\ ReadJSONStep(readBody)
    /\ hist' = Append(hist, "ReadJSON")
    /\ UNCHANGED <<request, params, bindings, payload, streamFails, formVars,
                   formTarget>>

TransportReadStep(r) ==
    /\ origRest' = r.origRest
    /\ replayBuf' = r.replayBuf
    /\ origReadAlls' = origReadAlls + r.reads
    /\ ret' = [Ret("TransportRead") EXCEPT !.err = r.err, !.bytes = r.bytes]

\* Another component reads BaseRequest().Body to its end with the transport
\* primitive (ioutil.ReadAll).
CallTransportRead ==
    /\ Len(hist) < MaxOps
    /\ body # "nil"
    /\ TransportReadStep(ReadAllBody)
    /\ hist' = Append(hist, "TransportRead")
    /\ UNCHANGED <<request, params, bindings, payload, streamFails, body,
                   formVars, jsonTarget, formTarget>>

\* ---------------------------------------------------------------- specifications

\* What mime.ParseMediaType makes of the Content-Type header: a media type
\* without error; the media type with an error when a parameter after it is
\* malformed; no media type and an error when the type itself is malformed.
\* A request without the header is taken as application/octet-stream.
MediaType(t) == [mediatype |-> t, err |-> ""]
BadParameter(t) == [mediatype |-> t, err |-> "mime: invalid media parameter"]
BadMediaType == [mediatype |-> "", err |-> "mime: expected slash after first token"]

\* The header lines that carry a value (a header drawn empty is not sent).
Sent(lines) == SelectSeq(lines, LAMBDA line : line[2] # <<>>)

\* NewRequest around a request received with these inputs.
Start(m, q, ct, lines, addr, cks, ps, attached, pl, fails) ==
    /\ method = m
    /\ requestURI = <<"/">> \o (IF q = <<>> THEN <<>> ELSE <<"?">> \o q)
    /\ contentType = ct.mediatype
    /\ contentTypeErr = ct.err
    /\ header = MkHeader(lines)
    /\ remoteAddr = addr
    /\ cookies = cks
    /\ params = ps
    /\ bindings = <<>>
    /\ payload = pl
    /\ streamFails = fails
    /\ body = IF attached THEN "orig" ELSE "nil"
    /\ origRest = pl
    /\ replayBuf = <<>>
    /\ form = NilValues
    /\ postForm = NilValues
    /\ jsonTarget = 0
    /\ formTarget = <<>>
    /\ ret = Ret("")
    /\ hist = <<>>
    /\ origReadAlls = 0
    /\ parseCalls = 0
    /\ parseErr = ""

BodyAlphabet == {"1", "%", "&"}

\* Longer bodies: a key with a value, an escaped key, and JSON documents that
\* are an integer with white space and a null.
SampleBodies ==
    {<<"1", "=", "1">>, <<"%", "3", "1">>, <<" ", "-", "1", " ">>, <<"n", "u", "l", "l">>}

\* Body and form operations on requests of every method, content type, body
\* and query within the bounds.
InitBody ==
    \/ \E m \in {"GET", "POST"},
          ct \in {MediaType(FormURLEncoded), MediaType("application/json")},
          q \in Strs(BodyAlphabet, MaxQuery), attached \in BOOLEAN :
          \E pl \in IF attached THEN Strs(BodyAlphabet, MaxBody) \cup SampleBodies
                                  ELSE {<<>>},
             fails \in IF attached THEN BOOLEAN ELSE {FALSE} :
             Start(m, q, ct, <<>>, <<>>, <<>>, <<>>, attached, pl, fails)
    \/ \E ct \in {BadParameter(FormURLEncoded), BadMediaType},
          q \in {<<>>, <<"1">>}, pl \in {<<"1">>, <<"1", "=", "1">>}, fails \in BOOLEAN :
          Start("POST", q, ct, <<>>, <<>>, <<>>, <<>>, TRUE, pl, fails)

NextBody == CallReadJSON \/ CallFormValues \/ CallReadForm \/ CallTransportRead

SpecBody == InitBody /\ [][NextBody]_vars

\* Client-IP resolution over every X-Real-IP, X-Forwarded-For and remote
\* address within the bounds, and some longer and bracketed addresses.
SampleAddrs ==
    {<<"[", "1", "]", ":", "1">>, <<"[", "1", "]">>, <<"[", ":", ":", "1", "]", ":", "1">>,
     <<"[", "1", ":", "1">>, <<"[", "1", "]", "1", ":", "1">>, <<"1", "[", ":", "1">>,
     <<"1", "]", ":", "1">>, <<" ", "[", "1", "]", ":", "1", " ">>,
     <<" ", "1", ":", "1">>, <<"1", ":", "1", ":", "1">>}

InitIP ==
    \E xri \in Strs({"1", " "}, MaxRealIP),
       xff \in Strs({"1", ",", " "}, MaxForwarded),
       addr \in Strs({"1", ":", " "}, MaxAddr) \cup SampleAddrs :
       Start("GET", <<>>, MediaType("application/octet-stream"), Sent(<<<<XRealIP, xri>>, <<XForwardedFor, xff>>>>),
             addr, <<>>, <<>>, FALSE, <<>>, FALSE)

NextIP == CallIP

SpecIP == InitIP /\ [][NextIP]_vars

\* Header and cookie accessors.
AjaxValues ==
    {<<>>, XMLHttpRequest, <<" ">> \o XMLHttpRequest \o <<" ">>,
     <<"x","m","l","h","t","t","p","r","e","q","u","e","s","t">>,
     XMLHttpRequest \o <<"1">>, <<"X", " ">> \o Tail(XMLHttpRequest)}

CookieLists ==
    Strs([Name : {<<"a">>, <<"b">>}, Value : {<<"1">>, <<"2">>}], MaxCookies)

InitHdr ==
    \E xrw \in AjaxValues, legacy \in AjaxValues, cks \in CookieLists :
       Start("GET", <<>>, MediaType("application/octet-stream"),
             Sent(<<<<<<"x","-","r","e","q","u","e","s","t","e","d","-","w","i","t","h">>, xrw>>,
                    <<AjaxHeaderName, legacy>>>>),
             <<"1">>, cks, <<>>, FALSE, <<>>, FALSE)

NextHdr == CallIsAjax \/ CallHeader \/ CallCookie \/ CallHasCookie

SpecHdr == InitHdr /\ [][NextHdr]_vars

\* Method, media type and query of the requests of InitFrame.
FrameRequests ==
    {<<"POST", FormURLEncoded, <<"1">>>>, <<"POST", FormURLEncoded, <<"1", "=", "1">>>>,
     <<"PUT", FormURLEncoded, <<"1", "=", "1">>>>, <<"GET", FormURLEncoded, <<"1", "=", "1">>>>,
     <<"POST", "application/json", <<"1", "=", "1">>>>, <<"GET", "application/json", <<"1">>>>}

\* Every operation of the Request on a few representative requests.
InitFrame ==
    \E r \in FrameRequests :
       Start(r[1], r[3], MediaType(r[2]),
             <<<<AcceptName, TextHTML \o <<",", " ">> \o ApplicationJSON>>,
               <<RefererName, <<"/">>>>,
               <<XForwardedFor, <<"1", ",", "1">>>>,
               <<<<"r","e","f","e","r","e","r">>, <<"/", "1">>>>>>,
             <<"1", ":", "1">>,
             <<[Name |-> <<"a">>, Value |-> <<"1">>]>>,
             <<[Key |-> <<"1">>, Value |-> <<"1">>]>>,
             TRUE, <<"1">>, FALSE)

NextFrame ==
    \/ CallHeader \/ CallIsAjax \/ CallMethod \/ CallURL \/ CallReferer
    \/ CallIP \/ CallWantsJSON \/ CallWantsHTML \/ CallWantsPlainText
    \/ CallCookie \/ CallHasCookie \/ CallParam \/ CallQuery
    \/ CallParamValues \/ CallReadQuery \/ CallReadParams
    \/ CallFormValues \/ CallReadForm \/ CallReadJSON

SpecFrame == InitFrame /\ [][NextFrame]_vars

\* ---------------------------------------------------------------- claims

\* The request was built with a body whose stream reads without error.
ReadableBody == body # "nil" /\ ~streamFails

\* C1: on a request with an attached body whose stream reads without error,
\* each of any number of consecutive body-cache reads (ReadJSON) returns the
\* original payload, and a read of Body with the transport primitive made
\* after those reads returns the full original payload too.
C1_ReplayAfterCacheReads ==
    ReadableBody =>
      /\ (hist # <<>> /\ \A i \in 1..Len(hist) : hist[i] = "ReadJSON")
            => (ret.bytes = payload /\ ret.err # ErrBodyEmpty /\ ret.err # ErrStreamRead)
      /\ (/\ Len(hist) >= 2
          /\ hist[Len(hist)] = "TransportRead"
          /\ \A i \in 1..(Len(hist) - 1) : hist[i] = "ReadJSON")
            => (ret.bytes = payload /\ ret.err = "")

C1_Witness ==
    /\ hist = <<"ReadJSON", "ReadJSON", "TransportRead">>
    /\ payload # <<>>
    /\ ret.bytes = payload

\* C2 (as claimed): once a first body-cache read has drained the transport
\* stream, the stream is never read again and every later body-cache read
\* returns the same bytes as the first one (the payload), whatever other
\* body-reading operations run in between.
C2_CacheReadsIdempotent ==
    (ReadableBody /\ hist # <<>> /\ hist[1] = "ReadJSON") =>
      /\ origReadAlls <= 1
      /\ (ret.op = "ReadJSON" => ret.bytes = payload)

\* C3: a body-cache read made when no body is attached fails with the body
\* absent error, and one made when the transport stream fails returns the
\* stream error; either way no bytes are returned, Body and the replay buffer
\* stay as they were, the stream is read at most the one time (no retry), and
\* ReadJSON returns that error and leaves its target alone.
C3_FailedReadLeavesRequest ==
    [][(hist' = Append(hist, "ReadJSON") /\ (body = "nil" \/ (body = "orig" /\ streamFails)))
         => /\ ret'.err = IF body = "nil" THEN ErrBodyEmpty ELSE ErrStreamRead
            /\ ret'.bytes = <<>>
            /\ body' = body
            /\ replayBuf' = replayBuf
            /\ jsonTarget' = jsonTarget
            /\ origReadAlls' = origReadAlls + (IF body = "nil" THEN 0 ELSE 1)]_vars

C3_Witness ==
    /\ hist = <<"ReadJSON", "ReadJSON">>
    /\ ret.err = ErrStreamRead
    /\ body = "orig"
    /\ payload # <<>>
    /\ origReadAlls = 2

\* C4: over any sequence of FormValues and ReadForm calls ParseForm runs at
\* most once; once a parsed form is stored on the request, a later call
\* returns that stored mapping and does not parse again.
C4_ParseFormOnce ==
    [][(hist' = Append(hist, "FormValues") \/ hist' = Append(hist, "ReadForm"))
         => /\ parseCalls' <= 1
            /\ ~form.nil => (parseCalls' = parseCalls /\ form' = form /\ ret'.vals = form)]_vars

C4_Witness ==
    /\ hist = <<"FormValues", "ReadForm", "FormValues">>
    /\ parseCalls = 1
    /\ ~ret.vals.nil
    /\ DOMAIN ret.vals.m # {}

\* C5 (as claimed): when form parsing failed for the request, every call of
\* FormValues (the first and all later ones) returns an empty or nil mapping,
\* and ReadForm decodes from an empty mapping.
C5_FailedParseYieldsEmpty ==
    (parseErr # "" /\ ret.op \in {"FormValues", "ReadForm"})
        => (ret.vals.nil \/ DOMAIN ret.vals.m = {})

\* The mapping a form-encoded POST with this payload and query parses to.
ClaimedForm ==
    IF ParseQuery(payload).err # "" \/ ParseQuery(RawQuery).err # "" THEN NilValues
    ELSE Values(CopyValues(ParseQuery(payload).vals, ParseQuery(RawQuery).vals))

\* C9 (as claimed): on a form-encoded POST a body-cache read returns the full
\* payload whether it runs before or after FormValues / ReadForm, and
\* FormValues returns the same parsed mapping whether it runs before or after
\* a body-cache read.
C9_OrderIndependent ==
    (ReadableBody /\ method = "POST" /\ contentType = FormURLEncoded
       /\ contentTypeErr = "") =>
      /\ hist \in {<<"ReadJSON">>, <<"FormValues", "ReadJSON">>, <<"ReadForm", "ReadJSON">>}
            => ret.bytes = payload
      /\ hist \in {<<"FormValues">>, <<"ReadJSON", "FormValues">>}
            => ret.vals = ClaimedForm

\* The raw value of a header as the request carries it.
RawHeader(name) == HeaderGet(header, name)

\* The left-most entry of the raw X-Forwarded-For value, trimmed.
ClaimedForwarded ==
    TrimSpace(IF IndexByte(RawHeader(XForwardedFor), ",") >= 0
              THEN Slice(RawHeader(XForwardedFor), 0, IndexByte(RawHeader(XForwardedFor), ","))
              ELSE RawHeader(XForwardedFor))

\* The priority chain with addr as the remote address of step (3) and (4).
ChainIP(addr) ==
    IF TrimSpace(RawHeader(XRealIP)) # <<>> THEN TrimSpace(RawHeader(XRealIP))
    ELSE IF ClaimedForwarded # <<>> THEN ClaimedForwarded
    ELSE IF addr = <<>> THEN <<>>
    ELSE IF SplitHostPort(addr).err = "" THEN SplitHostPort(addr).host
    ELSE addr

\* C6 (as claimed): IP returns the trimmed X-Real-IP if non-empty, else the
\* trimmed first entry of X-Forwarded-For if non-empty, else the host part of
\* the remote address when it has host:port form, else the remote address
\* itself, and the empty string when the remote address is empty.
C6_PriorityChainRawAddr == ret.op = "IP" => ret.str = ChainIP(remoteAddr)

\* C6 (amended): the same chain, with steps (3) and (4) applied to the remote
\* address after trimming its surrounding whitespace.
C6_PriorityChainTrimmedAddr == ret.op = "IP" => ret.str = ChainIP(TrimSpace(remoteAddr))

C6_Witness ==
    /\ ret.op = "IP"
    /\ TrimSpace(RawHeader(XRealIP)) = <<>>
    /\ RawHeader(XForwardedFor) # <<>>
    /\ ClaimedForwarded = <<>>
    /\ remoteAddr # TrimSpace(remoteAddr)
    /\ SplitHostPort(TrimSpace(remoteAddr)).err = ""
    /\ ret.str = <<"1">>

\* C7 (as claimed): IsAjax is true exactly when the X-Requested-With header
\* of the request, trimmed, equals XMLHttpRequest.
C7_AjaxIffRequestedWith ==
    ret.op = "IsAjax" => (ret.bool <=> TrimSpace(RawHeader(XRequestedWith)) = XMLHttpRequest)

\* The request carries a cookie of that name.
CookiePresent(name) == \E i \in 1..Len(cookies) : cookies[i].Name = name

\* C8: HasCookie(name) is true exactly when the request carries a cookie of
\* that name, and Cookie(name) returns the empty string whenever it does.
C8_CookieEmptyWhenPresent ==
    /\ ret.op = "HasCookie" => (ret.bool <=> CookiePresent(ret.name))
    /\ (ret.op = "Cookie" /\ CookiePresent(ret.name)) => ret.str = <<>>

C8_Witness ==
    /\ ret.op = "Cookie"
    /\ CookiePresent(ret.name)
    /\ Len(cookies) = 2
    /\ ret.str = <<>>

AccessorOps ==
    {"Header", "IsAjax", "Method", "URL", "Referer", "IP", "WantsJSON",
     "WantsHTML", "WantsPlainText", "Cookie", "HasCookie", "Param", "Query",
     "ParamValues", "ReadQuery", "ReadParams"}

FormBodyRequest ==
    method \in {"POST", "PUT", "PATCH"} /\ body # "nil" /\ contentType = FormURLEncoded

====
